---- MODULE Spec2Model ----
(***************************************************************************)
(* Quote engine of the dynamic AMM (dynamic-amm-quote): compute_quote,     *)
(* get_latest_pool_fees and the SPL stake pool virtual price, as state     *)
(* machines whose actions apply the functions to inputs drawn in Init.     *)
(*                                                                         *)
(* Three specifications share the module:                                  *)
(*   Spec       a caller quoting swaps against one QuoteData snapshot      *)
(*   SpecFees   get_latest_pool_fees on a pool's fee curve as time passes  *)
(*   SpecDepeg  get_virtual_price on the bytes of a stake pool account     *)
(*                                                                         *)
(* TLC's integers are 32-bit, so every u64 and u128 value is the sequence  *)
(* of its base-1000 digits and is computed at its true width: u64::MAX is  *)
(* 18446744073709551615 and a u64 operation overflows exactly when its     *)
(* result passes it.  The i64 clock.unix_timestamp is a sign and a         *)
(* magnitude; the u8 activation tag and the u16 fee_bps are machine        *)
(* integers.  Rust's Option is a set of at most one element.               *)
(***************************************************************************)
EXTENDS Integers, Sequences, FiniteSets, TLC

VARIABLES
    pc,             \* position of the caller: "ready" or "done"
    quote_data,     \* QuoteData handed to compute_quote
    in_token_mint,  \* argument of compute_quote
    in_amount,      \* argument of compute_quote
    result,         \* what compute_quote returned (with its intermediate values)
    prev,           \* the last successful quote on the same QuoteData, at a smaller in_amount
    fee_state,      \* the Pool fields get_latest_pool_fees reads
    fee_point,      \* current_point argument of get_latest_pool_fees
    fee_result,     \* what get_latest_pool_fees returned
    stake_bytes,    \* bytes of the stake pool account given to get_virtual_price
    vp_result       \* what get_virtual_price returned

vars == <<pc, quote_data, in_token_mint, in_amount, result, prev,
          fee_state, fee_point, fee_result, stake_bytes, vp_result>>

quoteVars == <<quote_data, in_token_mint, in_amount, result, prev>>
feeVars == <<fee_state, fee_point, fee_result>>
depegVars == <<stake_bytes, vp_result>>

(***************************************************************************)
(* Option<T>                                                               *)
(***************************************************************************)
None == {}
Some(x) == {x}
Unwrap(o) == CHOOSE x \in o : TRUE

(***************************************************************************)
(* Unsigned integers at their true width: a number is the little-endian    *)
(* sequence of its base-1000 digits, without leading zeros (0 is << >>).   *)
(***************************************************************************)
\* the digits of a machine integer n >= 0
RECURSIVE BigOf(_)
BigOf(n) == IF n = 0 THEN <<>> ELSE <<n % 1000>> \o BigOf(n \div 1000)

\* the machine integer of a number below 2^31
RECURSIVE BigToNat(_)
BigToNat(a) == IF a = <<>> THEN 0 ELSE Head(a) + 1000 * BigToNat(Tail(a))

\* a without its leading zero digits
RECURSIVE BigNorm(_)
BigNorm(a) ==
    IF a = <<>> THEN <<>>
    ELSE IF a[Len(a)] = 0 THEN BigNorm(SubSeq(a, 1, Len(a) - 1))
    ELSE a

\* a * m + carry, for a machine integer m below 2 * 10^6
RECURSIVE BigMulCarry(_, _, _)
BigMulCarry(a, m, carry) ==
    IF a = <<>> THEN BigOf(carry)
    ELSE LET v == Head(a) * m + carry
         IN  <<v % 1000>> \o BigMulCarry(Tail(a), m, v \div 1000)

\* quotient and remainder of a by a machine integer d, 0 < d < 2 * 10^6
RECURSIVE BigDivRem(_, _)
BigDivRem(a, d) ==
    IF a = <<>> THEN [q |-> <<>>, r |-> 0]
    ELSE LET hi == BigDivRem(Tail(a), d)
             v == hi.r * 1000 + Head(a)
         IN  [q |-> <<v \div d>> \o hi.q, r |-> v % d]

RECURSIVE BigAddCarry(_, _, _)
BigAddCarry(a, b, carry) ==
    IF a = <<>> /\ b = <<>> THEN BigOf(carry)
    ELSE LET x == IF a = <<>> THEN 0 ELSE Head(a)
             y == IF b = <<>> THEN 0 ELSE Head(b)
             v == x + y + carry
         IN  <<v % 1000>> \o BigAddCarry(IF a = <<>> THEN <<>> ELSE Tail(a),
                                         IF b = <<>> THEN <<>> ELSE Tail(b), v \div 1000)

\* a <= b, for numbers without leading zeros
RECURSIVE BigLeq(_, _)
BigLeq(a, b) ==
    IF Len(a) # Len(b) THEN Len(a) < Len(b)
    ELSE IF a = <<>> THEN TRUE
    ELSE IF a[Len(a)] # b[Len(b)] THEN a[Len(a)] < b[Len(b)]
    ELSE BigLeq(SubSeq(a, 1, Len(a) - 1), SubSeq(b, 1, Len(b) - 1))

BigLt(a, b) == ~BigLeq(b, a)

BigAdd(a, b) == BigNorm(BigAddCarry(a, b, 0))

\* the digits of a - b - borrow, for a >= b + borrow
RECURSIVE BigSubBorrow(_, _, _)
BigSubBorrow(a, b, borrow) ==
    IF b = <<>> /\ borrow = 0 THEN a
    ELSE LET y == IF b = <<>> THEN 0 ELSE Head(b)
             v == Head(a) - y - borrow
         IN  <<IF v < 0 THEN v + 1000 ELSE v>>
                 \o BigSubBorrow(Tail(a), IF b = <<>> THEN <<>> ELSE Tail(b),
                                 IF v < 0 THEN 1 ELSE 0)

\* a - b, for a >= b
BigSub(a, b) == BigNorm(BigSubBorrow(a, b, 0))

\* the digits of a * b, one digit of b at a time
RECURSIVE BigMulDigits(_, _)
BigMulDigits(a, b) ==
    IF b = <<>> THEN <<>>
    ELSE BigAddCarry(BigMulCarry(a, Head(b), 0), <<0>> \o BigMulDigits(a, Tail(b)), 0)

BigMul(a, b) == IF a = <<>> \/ b = <<>> THEN <<>> ELSE BigNorm(BigMulDigits(a, b))

\* the largest digit q in lo..hi with q * b <= v
RECURSIVE QuotientDigit(_, _, _, _)
QuotientDigit(v, b, lo, hi) ==
    IF lo >= hi THEN lo
    ELSE LET mid == (lo + hi + 1) \div 2
         IN  IF BigLeq(BigNorm(BigMulCarry(b, mid, 0)), v)
             THEN QuotientDigit(v, b, mid, hi)
             ELSE QuotientDigit(v, b, lo, mid - 1)

\* long division of a by b # 0: quotient digits q and remainder r
RECURSIVE BigLongDiv(_, _)
BigLongDiv(a, b) ==
    IF a = <<>> THEN [q |-> <<>>, r |-> <<>>]
    ELSE LET hi == BigLongDiv(Tail(a), b)
             v == BigNorm(<<Head(a)>> \o hi.r)
             d == IF BigLt(v, b) THEN 0 ELSE QuotientDigit(v, b, 1, 999)
         IN  [q |-> <<d>> \o hi.q,
              r |-> IF d = 0 THEN v ELSE BigSub(v, BigNorm(BigMulCarry(b, d, 0)))]

\* floor(a / b) and a mod b, for b # 0
BigDivMod(a, b) ==
    IF Len(b) <= 2
    THEN LET s == BigDivRem(a, BigToNat(b)) IN [q |-> BigNorm(s.q), r |-> BigOf(s.r)]
    ELSE LET l == BigLongDiv(a, b) IN [q |-> BigNorm(l.q), r |-> l.r]
BigDiv(a, b) == BigDivMod(a, b).q
BigMod(a, b) == BigDivMod(a, b).r

(***************************************************************************)
(* Integer widths and conversions                                          *)
(***************************************************************************)
\* 2^128 - 1 = 340282366920938463463374607431768211455
U128MaxDigits == <<455, 211, 768, 431, 607, 374, 463, 463, 938, 920, 366, 282, 340>>
\* u64::MAX = 2^64 - 1 = 18446744073709551615, and the number of u64 values,
\* 2^64 = 18446744073709551616
U64Max == <<615, 551, 709, 73, 744, 446, 18>>
U64Modulus == <<616, 551, 709, 73, 744, 446, 18>>
U16Modulus == 65536

FitsU128(a) == BigLeq(a, U128MaxDigits)
FitsU64(a) == BigLeq(a, U64Max)

\* an i64 is its sign and its magnitude (a natural below 2^63, or 2^63 when negative)
I64(n) == [neg |-> n < 0, mag |-> BigOf(IF n < 0 THEN 0 - n ELSE n)]
\* `x as u64` of an i64: the two's-complement reinterpretation
AsU64(x) == IF x.neg THEN BigSub(U64Modulus, x.mag) ELSE x.mag
\* `x as u16` of a u64 x (truncation); a u16 is a machine integer
AsU16(x) == BigDivRem(x, U16Modulus).r
\* u64::try_from / try_into of a u128
TryIntoU64(x) == IF FitsU64(x) THEN Some(x) ELSE None

\* u64::checked_add, checked_mul; checked_sub (of u64 and of u128)
checked_add(a, b) == IF FitsU64(BigAdd(a, b)) THEN Some(BigAdd(a, b)) ELSE None
checked_sub(a, b) == IF BigLeq(b, a) THEN Some(BigSub(a, b)) ELSE None
checked_mul(a, b) == IF FitsU64(BigMul(a, b)) THEN Some(BigMul(a, b)) ELSE None

(***************************************************************************)
(* Fee schedule resolver: get_latest_pool_fees                             *)
(***************************************************************************)
\* Length of Pool.fee_curve.points
FEE_CURVE_POINT_NUMBER == 3

FeeCurveTypes == {"None", "Flat", "Linear"}

\* One unchecked u64 addition or multiplication whose exact result is `exact`:
\* the value itself when it fits; otherwise a panic (None) in a build with
\* overflow checks and the value modulo 2^64 in a build without them.
UncheckedU64(exact, overflow_checks) ==
    IF FitsU64(exact) THEN Some(exact)
    ELSE IF overflow_checks THEN None
    ELSE Some(BigMod(exact, U64Modulus))

\* The unchecked u64 subtraction a - b: below zero it panics (None) in a build
\* with overflow checks and wraps to 2^64 - (b - a) in a build without them.
UncheckedSubU64(a, b, overflow_checks) ==
    IF BigLeq(b, a) THEN Some(BigSub(a, b))
    ELSE IF overflow_checks THEN None
    ELSE Some(BigSub(U64Modulus, BigSub(b, a)))

\* let numerator = n * (current_point - a) + m * (b - current_point);
\* The sum of the two products p1 = n * (current_point - a), p2 = m * (b - current_point)
SumOfProducts(p1, p2, overflow_checks) ==
    IF p1 = None \/ p2 = None THEN None
    ELSE UncheckedU64(BigAdd(Unwrap(p1), Unwrap(p2)), overflow_checks)

\* The products of the differences d1 = current_point - a, d2 = b - current_point
ProductsOfDifferences(m, n, d1, d2, overflow_checks) ==
    IF d1 = None \/ d2 = None THEN None
    ELSE SumOfProducts(UncheckedU64(BigMul(n, Unwrap(d1)), overflow_checks),
                       UncheckedU64(BigMul(m, Unwrap(d2)), overflow_checks), overflow_checks)

InterpolationNumerator(m, n, a, b, current_point, overflow_checks) ==
    ProductsOfDifferences(m, n, UncheckedSubU64(current_point, a, overflow_checks),
                          UncheckedSubU64(b, current_point, overflow_checks), overflow_checks)

\* let bps = numerator / denominator; bps as u16
QuotientBps(numerator, denominator) ==
    IF numerator = None THEN None
    ELSE Some(AsU16(BigDiv(Unwrap(numerator), Unwrap(denominator))))

\* The Linear arm between the points (a, m) and (b, n), denominator = b - a
InterpolatedBps(m, n, a, b, current_point, denominator, overflow_checks) ==
    IF denominator = None THEN None
    ELSE IF Unwrap(denominator) = <<>> THEN Some(AsU16(m))
    ELSE QuotientBps(InterpolationNumerator(m, n, a, b, current_point, overflow_checks),
                     denominator)

\* mutant: a Flat curve taking the fee of point i, the one being approached
TradeBpsAtPoint_FlatTakesNext(points, fee_curve_type, current_point, i, overflow_checks) ==
    IF i = 0 \/ fee_curve_type = "Flat" THEN Some(points[i].fee_bps)
    ELSE
        InterpolatedBps(BigOf(points[i - 1].fee_bps), BigOf(points[i].fee_bps),
                        points[i - 1].activated_point, points[i].activated_point,
                        current_point,
                        UncheckedSubU64(points[i].activated_point,
                                        points[i - 1].activated_point, overflow_checks),
                        overflow_checks)

\* Body of the loop of get_latest_trade_bps once points[i].activated_point >= current_point
TradeBpsAtPoint(points, fee_curve_type, current_point, i, overflow_checks) ==
    IF i = 0 THEN Some(points[i].fee_bps)
    ELSE IF fee_curve_type = "Flat" THEN Some(points[i - 1].fee_bps)
    ELSE
        InterpolatedBps(BigOf(points[i - 1].fee_bps), BigOf(points[i].fee_bps),
                        points[i - 1].activated_point, points[i].activated_point,
                        current_point,
                        UncheckedSubU64(points[i].activated_point,
                                        points[i - 1].activated_point, overflow_checks),
                        overflow_checks)

RECURSIVE ScanPoints(_, _, _, _, _)
ScanPoints(points, fee_curve_type, current_point, i, overflow_checks) ==
    IF i >= FEE_CURVE_POINT_NUMBER THEN Some(points[FEE_CURVE_POINT_NUMBER - 1].fee_bps)
    ELSE IF BigLeq(current_point, points[i].activated_point)
         THEN TradeBpsAtPoint(points, fee_curve_type, current_point, i, overflow_checks)
         ELSE ScanPoints(points, fee_curve_type, current_point, i + 1, overflow_checks)

\* The closure get_latest_trade_bps: Some(bps), or None when the build panics
get_latest_trade_bps(state, current_point, overflow_checks) ==
    ScanPoints(state.fee_curve.points, state.fee_curve.fee_curve_type, current_point, 0,
               overflow_checks)

FeeOk(fees) == [ok |-> TRUE, err |-> "", fees |-> fees]
FeeErr(e) == [ok |-> FALSE, err |-> e,
              fees |-> [trade_fee_numerator |-> <<>>, trade_fee_denominator |-> <<>>,
                        protocol_trade_fee_numerator |-> <<>>,
                        protocol_trade_fee_denominator |-> <<>>]]

\* overflow_checks is the build profile: whether unchecked arithmetic panics
\* The PoolFees returned with the resolved numerator, the other fields copied
FeesWithNumerator(state, trade_fee_numerator) ==
    IF trade_fee_numerator = None THEN FeeErr("Overflow")
    ELSE FeeOk([trade_fee_numerator |-> Unwrap(trade_fee_numerator),
                trade_fee_denominator |-> state.fees.trade_fee_denominator,
                protocol_trade_fee_numerator |-> state.fees.protocol_trade_fee_numerator,
                protocol_trade_fee_denominator |-> state.fees.protocol_trade_fee_denominator])

\* let trade_fee_numerator = latest_trade_fee_bps.checked_mul(10)
FeesFromTradeBps(state, latest_trade_fee_bps) ==
    IF latest_trade_fee_bps = None THEN FeeErr("panic")
    ELSE FeesWithNumerator(state, checked_mul(BigOf(Unwrap(latest_trade_fee_bps)), BigOf(10)))

get_latest_pool_fees(state, current_point, overflow_checks) ==
    IF state.fee_curve.fee_curve_type = "None" \/ state.is_update_fee_completed
    THEN FeeOk(state.fees)
    ELSE FeesFromTradeBps(state, get_latest_trade_bps(state, current_point, overflow_checks))

(***************************************************************************)
(* u128 arithmetic of get_virtual_price                                    *)
(***************************************************************************)
\* u128::checked_mul, checked_add, checked_sub, checked_div on Option<u128>
\* operands (the `?` after each call returns None from the function)
u128_checked_mul(oa, ob) ==
    IF oa = None \/ ob = None THEN None
    ELSE IF FitsU128(BigMul(Unwrap(oa), Unwrap(ob))) THEN Some(BigMul(Unwrap(oa), Unwrap(ob)))
    ELSE None
u128_checked_add(oa, ob) ==
    IF oa = None \/ ob = None THEN None
    ELSE IF FitsU128(BigAdd(Unwrap(oa), Unwrap(ob))) THEN Some(BigAdd(Unwrap(oa), Unwrap(ob)))
    ELSE None
u128_checked_sub(oa, ob) ==
    IF oa = None \/ ob = None THEN None ELSE checked_sub(Unwrap(oa), Unwrap(ob))
u128_checked_div(oa, ob) ==
    IF oa = None \/ ob = None THEN None
    ELSE IF Unwrap(ob) = <<>> THEN None
    ELSE Some(BigDiv(Unwrap(oa), Unwrap(ob)))
\* u128 -> u64: try_into().ok()
u128_try_into_u64(oa) == IF oa = None THEN None ELSE TryIntoU64(Unwrap(oa))

(***************************************************************************)
(* Virtual price of an SPL stake pool: depeg/spl_stake.rs                  *)
(***************************************************************************)
\* depeg::PRECISION
PRECISION == 1000000

\* borsh0_10::try_from_slice_unchecked(bytes).ok()?
DecodeStakePool(bytes) == IF bytes.decodable THEN Some(bytes.stake) ELSE None

\* mutant: the threshold compared with < in place of <=
SanityCheckFails_Exclusive(withdraw_fee_denominator, withdraw_fee_numerator) ==
    BigLt(withdraw_fee_denominator, BigMul(withdraw_fee_numerator, BigOf(10)))

\* withdraw_fee_denominator <= withdraw_fee_numerator.checked_mul(10)?
\* (ten times a value converted from u64 always fits a u128)
SanityCheckFails(withdraw_fee_denominator, withdraw_fee_numerator) ==
    BigLeq(withdraw_fee_denominator, BigMul(withdraw_fee_numerator, BigOf(10)))

\* total_lamports.checked_mul(PRECISION)?.checked_div(pool_token_supply)?
DepositPrice(stake) ==
    u128_checked_div(u128_checked_mul(Some(stake.total_lamports), Some(BigOf(PRECISION))),
                     Some(stake.pool_token_supply))

\* mutant: the division by the fee denominator made before the scaling by PRECISION
WithdrawPrice_DivideFirst(stake) ==
    u128_checked_div(
        u128_checked_mul(
            u128_checked_div(
                u128_checked_mul(Some(stake.total_lamports),
                                 u128_checked_sub(Some(stake.sol_withdrawal_fee.denominator),
                                                  Some(stake.sol_withdrawal_fee.numerator))),
                Some(stake.sol_withdrawal_fee.denominator)),
            Some(BigOf(PRECISION))),
        Some(stake.pool_token_supply))

WithdrawPrice(stake) ==
    u128_checked_div(
        u128_checked_div(
            u128_checked_mul(
                u128_checked_mul(Some(stake.total_lamports),
                                 u128_checked_sub(Some(stake.sol_withdrawal_fee.denominator),
                                                  Some(stake.sol_withdrawal_fee.numerator))),
                Some(BigOf(PRECISION))),
            Some(stake.sol_withdrawal_fee.denominator)),
        Some(stake.pool_token_supply))

BlendPrices(deposit_price, withdraw_price) ==
    u128_checked_div(
        u128_checked_add(u128_checked_mul(deposit_price, Some(BigOf(3))), withdraw_price),
        Some(BigOf(4)))

\* The price of a decoded stake pool whose deposit price is deposit_price
VirtualPriceOf(stake, deposit_price) ==
    IF deposit_price = None THEN None
    ELSE IF SanityCheckFails(stake.sol_withdrawal_fee.denominator,
                             stake.sol_withdrawal_fee.numerator)
         THEN u128_try_into_u64(deposit_price)
    ELSE u128_try_into_u64(BlendPrices(deposit_price, WithdrawPrice(stake)))

get_virtual_price(bytes) ==
    IF DecodeStakePool(bytes) = None THEN None
    ELSE VirtualPriceOf(Unwrap(DecodeStakePool(bytes)),
                        DepositPrice(Unwrap(DecodeStakePool(bytes))))

(***************************************************************************)
(* Vault share accounting (dynamic-vault program state)                    *)
(***************************************************************************)
\* Total value of the vault unlocked at current_time.  vault.locked_profit is
\* the value of the vault's locked-profit tracker at the clock of the quote.
get_unlocked_amount(vault, current_time) == checked_sub(vault.total_amount, vault.locked_profit)

\* token amount of `share` LP out of `total_supply`
ShareOfUnlocked(total_amount, share, total_supply) ==
    IF total_amount = None \/ total_supply = <<>> THEN None
    ELSE TryIntoU64(BigDiv(BigMul(share, Unwrap(total_amount)), total_supply))
get_amount_by_share(vault, current_time, share, total_supply) ==
    ShareOfUnlocked(get_unlocked_amount(vault, current_time), share, total_supply)

\* LP minted for (or burnt to obtain) `out_token` tokens
UnmintOfUnlocked(total_amount, out_token, total_supply) ==
    IF total_amount = None THEN None
    ELSE IF Unwrap(total_amount) = <<>> THEN None
    ELSE TryIntoU64(BigDiv(BigMul(out_token, total_supply), Unwrap(total_amount)))
get_unmint_amount(vault, current_time, out_token, total_supply) ==
    UnmintOfUnlocked(get_unlocked_amount(vault, current_time), out_token, total_supply)

(***************************************************************************)
(* PoolFees                                                                *)
(***************************************************************************)
calculate_fee(token_amount, fee_numerator, fee_denominator) ==
    IF fee_denominator = <<>> THEN None
    ELSE Some(BigDiv(BigMul(token_amount, fee_numerator), fee_denominator))

trading_fee(fees, trading_tokens) ==
    calculate_fee(trading_tokens, fees.trade_fee_numerator, fees.trade_fee_denominator)

protocol_trading_fee(fees, trading_tokens) ==
    calculate_fee(trading_tokens, fees.protocol_trade_fee_numerator,
                  fees.protocol_trade_fee_denominator)

(***************************************************************************)
(* Swap curves: ConstantProduct and Stable                                 *)
(***************************************************************************)
\* Iteration budget of the stable curve's Newton solver
MaxNewtonIterations == 32

RECURSIVE Gcd(_, _)
Gcd(a, b) == IF b = <<>> THEN a ELSE Gcd(b, BigMod(a, b))

\* |a - b|
AbsDiff(a, b) == IF BigLeq(b, a) THEN BigSub(a, b) ELSE BigSub(b, a)

\* Both curves: swap never returns an amount >= the pre-swap out reserve; an
\* amount that would reach the reserve is no swap result
BelowOutReserve(destination_amount_swapped, swap_destination_amount) ==
    IF destination_amount_swapped = None THEN None
    ELSE IF BigLt(Unwrap(destination_amount_swapped), swap_destination_amount)
         THEN destination_amount_swapped
    ELSE None

\* ConstantProduct.swap(dx, x, y): dy = floor(y * dx / (x + dx)), below y
constant_product_swap(source_amount, swap_source_amount, swap_destination_amount) ==
    IF BigAdd(swap_source_amount, source_amount) = <<>> THEN None
    ELSE BelowOutReserve(Some(BigDiv(BigMul(swap_destination_amount, source_amount),
                                     BigAdd(swap_source_amount, source_amount))),
                         swap_destination_amount)

\* Price basis of a stable curve: one unit of token B is worth
\* base_virtual_price / PRECISION units of token A when the curve carries depeg
\* parameters.  The factors are the fraction in lowest terms.
PriceFactorA(curve) ==
    IF curve.depeg_type = "None" THEN BigOf(1)
    ELSE BigDiv(BigOf(PRECISION), Gcd(BigOf(PRECISION), curve.base_virtual_price))
PriceFactorB(curve) ==
    IF curve.depeg_type = "None" THEN BigOf(1)
    ELSE BigDiv(curve.base_virtual_price, Gcd(BigOf(PRECISION), curve.base_virtual_price))

upscale_token_a(curve, token_amount) ==
    BigMul(BigMul(token_amount, curve.token_a_multiplier), PriceFactorA(curve))
upscale_token_b(curve, token_amount) ==
    BigMul(BigMul(token_amount, curve.token_b_multiplier), PriceFactorB(curve))
\* a normalized amount back in token units: divided by the price factor and the multiplier
Downscale(token_amount, price_factor, multiplier) ==
    IF price_factor = <<>> \/ multiplier = <<>> THEN None
    ELSE Some(BigDiv(BigDiv(token_amount, price_factor), multiplier))
downscale_token_a(curve, token_amount) ==
    Downscale(token_amount, PriceFactorA(curve), curve.token_a_multiplier)
downscale_token_b(curve, token_amount) ==
    Downscale(token_amount, PriceFactorB(curve), curve.token_b_multiplier)

\* Newton iteration for the invariant D of reserves x, y (ann = amp * 2 > 0):
\*   d_p = d^3 / (4 x y),  d_next = (ann (x + y) + 2 d_p) d / ((ann - 1) d + 3 d_p)
RECURSIVE NewtonD(_, _, _, _, _)
NewtonDConverge(d_next, d, x, y, ann, iter) ==
    IF BigLeq(AbsDiff(d_next, d), BigOf(1)) THEN Some(d_next)
    ELSE NewtonD(d_next, x, y, ann, iter + 1)

NewtonDQuotient(d, d_p, denominator, x, y, ann, iter) ==
    IF denominator = <<>> THEN None
    ELSE NewtonDConverge(BigDiv(BigMul(BigAdd(BigMul(ann, BigAdd(x, y)),
                                              BigMul(d_p, BigOf(2))), d),
                                denominator),
                         d, x, y, ann, iter)

NewtonDStep(d, d_p, x, y, ann, iter) ==
    NewtonDQuotient(d, d_p,
                    BigAdd(BigMul(BigSub(ann, BigOf(1)), d), BigMul(BigOf(3), d_p)),
                    x, y, ann, iter)

NewtonD(d, x, y, ann, iter) ==
    IF iter >= MaxNewtonIterations \/ x = <<>> \/ y = <<>> \/ ann = <<>> THEN None
    ELSE NewtonDStep(d, BigDiv(BigMul(BigDiv(BigMul(d, d), BigMul(x, BigOf(2))), d),
                               BigMul(y, BigOf(2))),
                     x, y, ann, iter)

compute_d(x, y, amp) ==
    IF BigAdd(x, y) = <<>> THEN Some(<<>>)
    ELSE NewtonD(BigAdd(x, y), x, y, BigMul(amp, BigOf(2)), 0)

\* Newton iteration for the new balance of the output token:
\*   y_next = (y^2 + c) / (2 y + b - d)
RECURSIVE NewtonY(_, _, _, _, _)
NewtonYConverge(y_next, y, b, c, d, iter) ==
    IF BigLeq(AbsDiff(y_next, y), BigOf(1)) THEN Some(y_next)
    ELSE NewtonY(y_next, b, c, d, iter + 1)

NewtonY(y, b, c, d, iter) ==
    IF iter >= MaxNewtonIterations THEN None
    ELSE IF BigLeq(BigAdd(BigMul(BigOf(2), y), b), d) THEN None
    ELSE NewtonYConverge(BigDiv(BigAdd(BigMul(y, y), c),
                                BigSub(BigAdd(BigMul(BigOf(2), y), b), d)),
                         y, b, c, d, iter)

\* b = x + d / ann,  c = d^3 / (4 x ann), with ann = amp * 2
compute_y(x, d, amp) ==
    IF x = <<>> \/ amp = <<>> THEN None
    ELSE NewtonY(d, BigAdd(x, BigDiv(d, BigMul(amp, BigOf(2)))),
                 BigDiv(BigMul(BigDiv(BigMul(d, d), BigMul(x, BigOf(2))), d),
                        BigMul(BigMul(amp, BigOf(2)), BigOf(2))),
                 d, 0)

\* The amount out once the new balance y_new of the output token is known
StableSwapOutput(curve, y, y_new, trade_direction) ==
    IF y_new = None THEN None
    ELSE IF BigLt(y, Unwrap(y_new)) THEN None
    ELSE IF trade_direction = "AtoB"
         THEN downscale_token_b(curve, BigSub(y, Unwrap(y_new)))
         ELSE downscale_token_a(curve, BigSub(y, Unwrap(y_new)))

\* Stable.swap on decimal-normalized amounts x, y, dx, with d = compute_d(x, y)
StableSwapFromD(curve, dx, x, y, d, trade_direction) ==
    IF d = None THEN None
    ELSE StableSwapOutput(curve, y, compute_y(BigAdd(x, dx), Unwrap(d), curve.amp),
                          trade_direction)

\* Stable.swap on decimal-normalized amounts x, y, dx
StableSwapScaled(curve, dx, x, y, trade_direction) ==
    StableSwapFromD(curve, dx, x, y, compute_d(x, y, curve.amp), trade_direction)

\* Stable.swap: the amounts are normalized, swapped, and the result scaled back
stable_swap(curve, source_amount, swap_source_amount, swap_destination_amount, trade_direction) ==
    BelowOutReserve(
        IF trade_direction = "AtoB"
        THEN StableSwapScaled(curve, upscale_token_a(curve, source_amount),
                              upscale_token_a(curve, swap_source_amount),
                              upscale_token_b(curve, swap_destination_amount),
                              trade_direction)
        ELSE StableSwapScaled(curve, upscale_token_b(curve, source_amount),
                              upscale_token_b(curve, swap_source_amount),
                              upscale_token_a(curve, swap_destination_amount),
                              trade_direction),
        swap_destination_amount)

\* get_swap_curve(curve_type).swap(...): Some(destination_amount_swapped) or None
swap(curve_type, source_amount, swap_source_amount, swap_destination_amount, trade_direction) ==
    IF curve_type.kind = "ConstantProduct"
    THEN constant_product_swap(source_amount, swap_source_amount, swap_destination_amount)
    ELSE stable_swap(curve_type, source_amount, swap_source_amount, swap_destination_amount,
                     trade_direction)

\* The curve instance built from a CurveType value
get_swap_curve(curve_type) == curve_type

(***************************************************************************)
(* update_base_virtual_price (depeg/mod.rs)                                *)
(***************************************************************************)
\* Some(curve with the resolved virtual price), or None when no price is
\* available and the curve requires a fresh one.
CurveWithVirtualPrice(curve, virtual_price) ==
    IF virtual_price # None
    THEN Some([curve EXCEPT !.base_virtual_price = Unwrap(virtual_price)])
    ELSE IF curve.fresh_price_required THEN None
    ELSE Some(curve)

update_base_virtual_price(curve, clock, stake_data, stake) ==
    IF curve.kind # "Stable" \/ curve.depeg_type = "None" THEN Some(curve)
    ELSE CurveWithVirtualPrice(curve, IF stake \in DOMAIN stake_data
                                      THEN get_virtual_price(stake_data[stake])
                                      ELSE None)

(***************************************************************************)
(* compute_quote                                                           *)
(***************************************************************************)
\* ActivationType::try_from(u8)
ActivationTypeTryFrom(tag) ==
    IF tag = 0 THEN Some("Slot") ELSE IF tag = 1 THEN Some("Timestamp") ELSE None

\* current_point: clock.slot, or clock.unix_timestamp as u64
CurrentPoint(activation_type, clock) ==
    IF activation_type = "Slot" THEN clock.slot ELSE AsU64(clock.unix_timestamp)

\* let current_time: u64 = clock.unix_timestamp.try_into()?  (i64 -> u64: every
\* non-negative i64 is a u64)
CurrentTime(clock) == IF clock.unix_timestamp.neg THEN None ELSE Some(clock.unix_timestamp.mag)

\* in_token_mint == pool.token_a_mint || in_token_mint == pool.token_b_mint
MintMatches(mint, pool) == mint = pool.token_a_mint \/ mint = pool.token_b_mint

TradeDirectionOf(mint, pool) == IF mint = pool.token_a_mint THEN "AtoB" ELSE "BtoA"

\* mutant: the reserves taken in the order (a, b) whatever the direction
SelectSides_ReservesNotExchanged(trade_direction, qd, token_a_amount, token_b_amount) ==
    IF trade_direction = "AtoB"
    THEN [in_vault |-> qd.vault_a, out_vault |-> qd.vault_b,
          in_vault_lp |-> qd.pool_vault_a_lp_token,
          in_vault_lp_mint |-> qd.vault_a_lp_mint,
          out_vault_lp_mint |-> qd.vault_b_lp_mint,
          out_vault_token_account |-> qd.vault_b_token,
          in_token_total_amount |-> token_a_amount,
          out_token_total_amount |-> token_b_amount]
    ELSE [in_vault |-> qd.vault_b, out_vault |-> qd.vault_a,
          in_vault_lp |-> qd.pool_vault_b_lp_token,
          in_vault_lp_mint |-> qd.vault_b_lp_mint,
          out_vault_lp_mint |-> qd.vault_a_lp_mint,
          out_vault_token_account |-> qd.vault_a_token,
          in_token_total_amount |-> token_a_amount,
          out_token_total_amount |-> token_b_amount]

\* mutant: the guard's token account taken from the in side
SelectSides_InTokenAccount(trade_direction, qd, token_a_amount, token_b_amount) ==
    IF trade_direction = "AtoB"
    THEN [in_vault |-> qd.vault_a, out_vault |-> qd.vault_b,
          in_vault_lp |-> qd.pool_vault_a_lp_token,
          in_vault_lp_mint |-> qd.vault_a_lp_mint,
          out_vault_lp_mint |-> qd.vault_b_lp_mint,
          out_vault_token_account |-> qd.vault_a_token,
          in_token_total_amount |-> token_a_amount,
          out_token_total_amount |-> token_b_amount]
    ELSE [in_vault |-> qd.vault_b, out_vault |-> qd.vault_a,
          in_vault_lp |-> qd.pool_vault_b_lp_token,
          in_vault_lp_mint |-> qd.vault_b_lp_mint,
          out_vault_lp_mint |-> qd.vault_a_lp_mint,
          out_vault_token_account |-> qd.vault_b_token,
          in_token_total_amount |-> token_b_amount,
          out_token_total_amount |-> token_a_amount]

\* The tuple selected by `match trade_direction`
SelectSides(trade_direction, qd, token_a_amount, token_b_amount) ==
    IF trade_direction = "AtoB"
    THEN [in_vault |-> qd.vault_a, out_vault |-> qd.vault_b,
          in_vault_lp |-> qd.pool_vault_a_lp_token,
          in_vault_lp_mint |-> qd.vault_a_lp_mint,
          out_vault_lp_mint |-> qd.vault_b_lp_mint,
          out_vault_token_account |-> qd.vault_b_token,
          in_token_total_amount |-> token_a_amount,
          out_token_total_amount |-> token_b_amount]
    ELSE [in_vault |-> qd.vault_b, out_vault |-> qd.vault_a,
          in_vault_lp |-> qd.pool_vault_b_lp_token,
          in_vault_lp_mint |-> qd.vault_b_lp_mint,
          out_vault_lp_mint |-> qd.vault_a_lp_mint,
          out_vault_token_account |-> qd.vault_a_token,
          in_token_total_amount |-> token_b_amount,
          out_token_total_amount |-> token_a_amount]

\* mutant: the protocol cut added to the trade fee instead of carved out of it
SplitTradeFee_Added(trade_fee, protocol_fee) == checked_add(trade_fee, protocol_fee)

\* Protocol fee is a cut from trade fee: trade_fee.checked_sub(protocol_fee)
SplitTradeFee(trade_fee, protocol_fee) == checked_sub(trade_fee, protocol_fee)

StepOk(v) == [ok |-> TRUE, err |-> "", value |-> v]
StepErr(e) == [ok |-> FALSE, err |-> e, value |-> <<>>]

\* mutant: the LP minted for the deposit credited to the pool but left out of the supply
ActualInAmount_SupplyNotRaised(in_vault, in_vault_lp, in_vault_lp_mint, current_time, in_amount_after_protocol_fee, before_in_token_total_amount) ==
    LET in_lp == get_unmint_amount(in_vault, current_time, in_amount_after_protocol_fee,
                                   in_vault_lp_mint.supply)
        total_amount == checked_add(in_vault.total_amount, in_amount_after_protocol_fee)
    IN  IF in_lp = None THEN StepErr("Fail to get in_vault_lp")
        ELSE IF total_amount = None THEN StepErr("Fail to add in_vault.total_amount")
        ELSE LET new_lp == checked_add(Unwrap(in_lp), in_vault_lp.amount)
             IN  IF new_lp = None THEN StepErr("Fail to get new in_vault_lp")
                 ELSE LET after_in_token_total_amount ==
                              get_amount_by_share(
                                  [in_vault EXCEPT !.total_amount = Unwrap(total_amount)],
                                  current_time, Unwrap(new_lp), in_vault_lp_mint.supply)
                      IN  IF after_in_token_total_amount = None
                          THEN StepErr("Fail to get after_in_token_total_amount")
                          ELSE LET actual_in_amount ==
                                       checked_sub(Unwrap(after_in_token_total_amount),
                                                   before_in_token_total_amount)
                               IN  IF actual_in_amount = None
                                   THEN StepErr("Fail to get actual_in_amount")
                                   ELSE StepOk(Unwrap(actual_in_amount))

\* value.context(e)?
StepOf(value, e) == IF value = None THEN StepErr(e) ELSE StepOk(Unwrap(value))

\* lines 198-205: what the pool's share of the in vault is worth after the deposit
DepositValued(after_in_token_total_amount, before_in_token_total_amount) ==
    IF after_in_token_total_amount = None
    THEN StepErr("Fail to get after_in_token_total_amount")
    ELSE StepOf(checked_sub(Unwrap(after_in_token_total_amount),
                            before_in_token_total_amount),
                "Fail to get actual_in_amount")

\* lines 186-201: the pool's LP balance and the LP supply raised by the LP minted
DepositMinted(in_vault, current_time, total_amount, new_lp, new_supply, before_in_token_total_amount) ==
    IF new_lp = None THEN StepErr("Fail to get new in_vault_lp")
    ELSE IF new_supply = None THEN StepErr("Fail to get new in_vault_lp_mint")
    ELSE DepositValued(get_amount_by_share([in_vault EXCEPT !.total_amount = total_amount],
                                           current_time, Unwrap(new_lp), Unwrap(new_supply)),
                       before_in_token_total_amount)

\* lines 175-196: the LP minted for the deposit and the vault total raised by it
DepositAdded(in_vault, in_vault_lp, in_vault_lp_mint, current_time, in_lp, total_amount, before_in_token_total_amount) ==
    IF in_lp = None THEN StepErr("Fail to get in_vault_lp")
    ELSE IF total_amount = None THEN StepErr("Fail to add in_vault.total_amount")
    ELSE DepositMinted(in_vault, current_time, Unwrap(total_amount),
                       checked_add(Unwrap(in_lp), in_vault_lp.amount),
                       checked_add(in_vault_lp_mint.supply, Unwrap(in_lp)),
                       before_in_token_total_amount)

\* The simulated deposit into the in vault (lines 175-205): actual_in_amount
ActualInAmount(in_vault, in_vault_lp, in_vault_lp_mint, current_time, in_amount_after_protocol_fee, before_in_token_total_amount) ==
    DepositAdded(in_vault, in_vault_lp, in_vault_lp_mint, current_time,
                 get_unmint_amount(in_vault, current_time, in_amount_after_protocol_fee,
                                   in_vault_lp_mint.supply),
                 checked_add(in_vault.total_amount, in_amount_after_protocol_fee),
                 before_in_token_total_amount)

\* mutant: the swapped amount itself, not the LP it unmints, converted by share
OutAmount_AmountAsShare(out_vault, current_time, destination_amount_swapped, out_vault_lp_mint) ==
    LET amount == TryIntoU64(destination_amount_swapped)
    IN  IF amount = None THEN StepErr("TryFromIntError")
        ELSE LET out_vault_lp == get_unmint_amount(out_vault, current_time, Unwrap(amount),
                                                   out_vault_lp_mint.supply)
             IN  IF out_vault_lp = None THEN StepErr("Fail to get out_vault_lp")
                 ELSE LET out_amount == get_amount_by_share(out_vault, current_time,
                                            Unwrap(amount), out_vault_lp_mint.supply)
                      IN  IF out_amount = None THEN StepErr("Fail to get out_amount")
                          ELSE StepOk(Unwrap(out_amount))

\* The share round trip on the out vault (lines 225-235): out_amount
\* lines 229-235: the tokens the LP to burn is worth
OutAmountOfLp(out_vault, current_time, out_vault_lp, out_vault_lp_mint) ==
    IF out_vault_lp = None THEN StepErr("Fail to get out_vault_lp")
    ELSE StepOf(get_amount_by_share(out_vault, current_time, Unwrap(out_vault_lp),
                                    out_vault_lp_mint.supply),
                "Fail to get out_amount")

\* lines 225-233: the LP to burn for the swapped amount, converted to u64
OutAmountOfSwapped(out_vault, current_time, amount, out_vault_lp_mint) ==
    IF amount = None THEN StepErr("TryFromIntError")
    ELSE OutAmountOfLp(out_vault, current_time,
                       get_unmint_amount(out_vault, current_time, Unwrap(amount),
                                         out_vault_lp_mint.supply),
                       out_vault_lp_mint)

OutAmount(out_vault, current_time, destination_amount_swapped, out_vault_lp_mint) ==
    OutAmountOfSwapped(out_vault, current_time, TryIntoU64(destination_amount_swapped),
                       out_vault_lp_mint)

\* ensure!(out_amount < out_vault_token_account.amount, ...)
LiquidityGuard(out_amount, out_vault_token_account) ==
    BigLt(out_amount, out_vault_token_account.amount)

\* mutant: the fee clamped to the credited amount in place of the checked subtraction
AmountAfterFee_Clamped(actual_in_amount, trade_fee) ==
    IF BigLeq(trade_fee, actual_in_amount) THEN Some(BigSub(actual_in_amount, trade_fee))
    ELSE Some(<<>>)

\* actual_in_amount.checked_sub(trade_fee.try_into()?)
AmountAfterFee(actual_in_amount, trade_fee) == checked_sub(actual_in_amount, trade_fee)

NoCurve == [kind |-> "ConstantProduct", amp |-> <<>>, token_a_multiplier |-> <<>>,
            token_b_multiplier |-> <<>>, depeg_type |-> "None", base_virtual_price |-> <<>>,
            fresh_price_required |-> FALSE]

NoQuote == [ok |-> FALSE, err |-> "", out_amount |-> <<>>, fee |-> <<>>,
            current_point |-> <<>>, trade_direction |-> "", curve |-> NoCurve,
            swap_curve |-> NoCurve, in_token_total_amount |-> <<>>,
            out_token_total_amount |-> <<>>, trade_fee_before_split |-> <<>>,
            protocol_fee |-> <<>>, in_amount_after_protocol_fee |-> <<>>,
            actual_in_amount |-> <<>>, actual_in_amount_after_fee |-> <<>>,
            destination_amount_swapped |-> <<>>]

Fail(e) == [NoQuote EXCEPT !.err = e]

\* compute_quote (lines 76-246), in the order of the code.  Each stage receives
\* what the earlier lines resolved: q holds the locals so far, side the tuple
\* of line 124, and the last parameter the value the stage decides on.

\* lines 225-246: out_amount of the round trip through the out vault, the
\* liquidity guard and the QuoteResult
QuoteResult(q, side, out_amount) ==
    IF ~out_amount.ok THEN Fail(out_amount.err)
    \* the locals at the ensure! of line 237 are kept whichever way it is decided
    ELSE [q EXCEPT !.ok = LiquidityGuard(out_amount.value, side.out_vault_token_account),
                   !.err = IF LiquidityGuard(out_amount.value, side.out_vault_token_account)
                           THEN "" ELSE "Out amount > vault reserve",
                   !.out_amount = out_amount.value]

\* lines 217-235: the result of the swap on the curve
QuoteSwapped(q, side, current_time, destination_amount_swapped) ==
    IF destination_amount_swapped = None THEN Fail("Fail to get swap result")
    ELSE QuoteResult([q EXCEPT !.destination_amount_swapped =
                                   Unwrap(destination_amount_swapped)],
                     side,
                     OutAmount(side.out_vault, current_time,
                               Unwrap(destination_amount_swapped), side.out_vault_lp_mint))

\* lines 211-223: the swap on the curve of the pool
QuoteCurveSwap(q, qd, side, current_time, actual_in_amount_after_fee) ==
    QuoteSwapped([q EXCEPT !.swap_curve = get_swap_curve(qd.pool.curve_type),
                           !.actual_in_amount_after_fee = actual_in_amount_after_fee],
                 side, current_time,
                 swap(get_swap_curve(qd.pool.curve_type), actual_in_amount_after_fee,
                      side.in_token_total_amount, side.out_token_total_amount,
                      q.trade_direction))

\* lines 207-209: the trade fee taken off what the deposit credits
QuoteAfterFee(q, qd, side, current_time, actual_in_amount_after_fee) ==
    IF actual_in_amount_after_fee = None
    THEN [Fail("Fail to calculate in_amount_after_fee")
              EXCEPT !.fee = q.fee, !.actual_in_amount = q.actual_in_amount]
    ELSE QuoteCurveSwap(q, qd, side, current_time, Unwrap(actual_in_amount_after_fee))

\* lines 175-209: the amount the simulated deposit credits, and the fee as u64
QuoteDeposited(q, qd, side, current_time, trade_fee, actual_in_amount) ==
    IF ~actual_in_amount.ok THEN Fail(actual_in_amount.err)
    ELSE IF trade_fee = None THEN Fail("TryFromIntError")
    ELSE QuoteAfterFee([q EXCEPT !.fee = Unwrap(trade_fee),
                                 !.actual_in_amount = actual_in_amount.value],
                       qd, side, current_time,
                       AmountAfterFee(actual_in_amount.value, Unwrap(trade_fee)))

\* lines 171-205: the amount net of the protocol fee, and its simulated deposit
QuoteDeposit(q, qd, side, current_time, trade_fee, in_amount_after_protocol_fee) ==
    IF in_amount_after_protocol_fee = None
    THEN Fail("Fail to calculate in_amount_after_protocol_fee")
    ELSE QuoteDeposited([q EXCEPT !.in_amount_after_protocol_fee =
                                      Unwrap(in_amount_after_protocol_fee)],
                        qd, side, current_time, TryIntoU64(trade_fee),
                        ActualInAmount(side.in_vault, side.in_vault_lp,
                                       side.in_vault_lp_mint, current_time,
                                       Unwrap(in_amount_after_protocol_fee),
                                       side.in_token_total_amount))

\* lines 166-173: the trade fee net of the protocol's cut, and the cut as u64
QuoteSplitFee(q, qd, side, current_time, amount, trade_fee, protocol_fee) ==
    IF trade_fee = None THEN Fail("Fail to calculate trade fee")
    ELSE IF protocol_fee = None THEN Fail("TryFromIntError")
    ELSE QuoteDeposit(q, qd, side, current_time, Unwrap(trade_fee),
                      checked_sub(amount, Unwrap(protocol_fee)))

\* lines 161-169: the protocol's cut of the trade fee
QuoteProtocolFee(q, qd, side, current_time, amount, protocol_fee) ==
    IF protocol_fee = None THEN Fail("Fail to calculate protocol trading fee")
    ELSE QuoteSplitFee([q EXCEPT !.protocol_fee = Unwrap(protocol_fee)],
                       qd, side, current_time, amount,
                       SplitTradeFee(q.trade_fee_before_split, Unwrap(protocol_fee)),
                       TryIntoU64(Unwrap(protocol_fee)))

\* lines 158-164: the trade fee on the amount
QuoteTradeFee(q, qd, side, current_time, amount, latest_pool_fees, trade_fee) ==
    IF trade_fee = None THEN Fail("Fail to calculate trading fee")
    ELSE QuoteProtocolFee([q EXCEPT !.trade_fee_before_split = Unwrap(trade_fee)],
                          qd, side, current_time, amount,
                          protocol_trading_fee(latest_pool_fees, Unwrap(trade_fee)))

\* lines 156-160: the fees in force at current_point
QuoteFees(q, qd, side, current_time, amount, latest_pool_fees) ==
    IF ~latest_pool_fees.ok THEN Fail(latest_pool_fees.err)
    ELSE QuoteTradeFee(q, qd, side, current_time, amount, latest_pool_fees.fees,
                       trading_fee(latest_pool_fees.fees, amount))

\* lines 124-156: the sides selected by the trade direction
QuoteSelected(amount, qd, current_point, current_time, curve, trade_direction, side) ==
    QuoteFees([NoQuote EXCEPT !.current_point = current_point,
                              !.trade_direction = trade_direction,
                              !.curve = curve,
                              !.in_token_total_amount = side.in_token_total_amount,
                              !.out_token_total_amount = side.out_token_total_amount],
              qd, side, current_time, amount,
              get_latest_pool_fees(qd.pool, current_point, qd.overflow_checks))

\* lines 118-154: the trade direction
QuoteSides(mint, amount, qd, current_point, current_time, curve, token_a_amount, token_b_amount) ==
    QuoteSelected(amount, qd, current_point, current_time, curve,
                  TradeDirectionOf(mint, qd.pool),
                  SelectSides(TradeDirectionOf(mint, qd.pool), qd, token_a_amount,
                              token_b_amount))

\* lines 102-116: the pool's reserves in the two vaults
QuoteReserves(mint, amount, qd, current_point, current_time, curve, token_a_amount, token_b_amount) ==
    IF token_a_amount = None THEN Fail("Fail to get token a amount")
    ELSE IF token_b_amount = None THEN Fail("Fail to get token b amount")
    ELSE QuoteSides(mint, amount, qd, current_point, current_time, curve,
                    Unwrap(token_a_amount), Unwrap(token_b_amount))

QuoteSwap(mint, amount, qd, current_point, current_time, curve) ==
    QuoteReserves(mint, amount, qd, current_point, current_time, curve,
                  get_amount_by_share(qd.vault_a, current_time,
                                      qd.pool_vault_a_lp_token.amount,
                                      qd.vault_a_lp_mint.supply),
                  get_amount_by_share(qd.vault_b, current_time,
                                      qd.pool_vault_b_lp_token.amount,
                                      qd.vault_b_lp_mint.supply))

\* lines 92-100: the curve with its virtual price, the time and the mint
QuoteWithCurve(mint, amount, qd, current_point, curve) ==
    IF curve = None THEN Fail("Fail to get virtual price")
    ELSE IF CurrentTime(qd.clock) = None THEN Fail("TryFromIntError")
    ELSE IF ~MintMatches(mint, qd.pool)
    THEN Fail("In token mint not matches with pool token mints")
    ELSE QuoteSwap(mint, amount, qd, current_point, Unwrap(CurrentTime(qd.clock)),
                   Unwrap(curve))

\* lines 86-93: the pool enabled and activated at current_point
QuoteAtPoint(mint, amount, qd, current_point) ==
    IF ~qd.pool.enabled THEN Fail("Pool disabled")
    ELSE IF ~BigLeq(qd.pool.bootstrapping.activation_point, current_point)
    THEN Fail("Swap is disabled")
    ELSE QuoteWithCurve(mint, amount, qd, current_point,
                        update_base_virtual_price(qd.pool.curve_type, qd.clock,
                                                  qd.stake_data, qd.pool.stake))

compute_quote(mint, amount, qd) ==
    IF ActivationTypeTryFrom(qd.pool.bootstrapping.activation_type) = None
    THEN Fail("Invalid activation type")
    ELSE QuoteAtPoint(mint, amount, qd,
                      CurrentPoint(Unwrap(ActivationTypeTryFrom(
                                       qd.pool.bootstrapping.activation_type)),
                                   qd.clock))

(***************************************************************************)
(* Inputs                                                                  *)
(***************************************************************************)
\* largest in_amount quoted
MaxAmount == 4
\* largest vault total_amount
MaxTotal == 6
\* largest vault LP supply
MaxSupply == 3
\* fee curve activation points are multiples of 100 up to 100 * MaxPointMultiple
MaxPointMultiple == 2
\* stake pools hold 0..MaxLamports lamports (and the documented fixture)
MaxLamports == 8

StaticFees(tn, td, pn, pd) ==
    [trade_fee_numerator |-> BigOf(tn), trade_fee_denominator |-> BigOf(td),
     protocol_trade_fee_numerator |-> BigOf(pn), protocol_trade_fee_denominator |-> BigOf(pd)]

Point(a, f) == [activated_point |-> a, fee_bps |-> f]
Points(p0, p1, p2) == [i \in 0..(FEE_CURVE_POINT_NUMBER - 1) |->
                          IF i = 0 THEN p0 ELSE IF i = 1 THEN p1 ELSE p2]

NoFeeCurve == [fee_curve_type |-> "None",
               points |-> Points(Point(<<>>, 0), Point(<<>>, 0), Point(<<>>, 0))]
\* a curve in slots/seconds 0..4 whose bps are read against a denominator of 1000
SmallFeeCurve == [fee_curve_type |-> "Linear",
                  points |-> Points(Point(BigOf(0), 50), Point(BigOf(2), 50),
                                    Point(BigOf(4), 100))]
\* a curve whose last point is never reached: activated_point = u64::MAX
OpenEndedFeeCurve == [fee_curve_type |-> "Linear",
                      points |-> Points(Point(BigOf(0), 50), Point(BigOf(0), 50),
                                        Point(U64Max, 50))]

ConstantProductCurve == [NoCurve EXCEPT !.kind = "ConstantProduct"]
StableCurve(amp, ma, mb) ==
    [kind |-> "Stable", amp |-> BigOf(amp), token_a_multiplier |-> BigOf(ma),
     token_b_multiplier |-> BigOf(mb), depeg_type |-> "None", base_virtual_price |-> <<>>,
     fresh_price_required |-> FALSE]
DepegCurve(amp, stored_price, fresh) ==
    [kind |-> "Stable", amp |-> BigOf(amp), token_a_multiplier |-> BigOf(1),
     token_b_multiplier |-> BigOf(1), depeg_type |-> "SplStake",
     base_virtual_price |-> BigOf(stored_price), fresh_price_required |-> fresh]

StakePool(lamports, supply, num, den) ==
    [decodable |-> TRUE,
     stake |-> [total_lamports |-> BigOf(lamports), pool_token_supply |-> BigOf(supply),
                sol_withdrawal_fee |-> [numerator |-> BigOf(num), denominator |-> BigOf(den)]]]
Garbage == [decodable |-> FALSE,
            stake |-> [total_lamports |-> <<>>, pool_token_supply |-> <<>>,
                       sol_withdrawal_fee |-> [numerator |-> <<>>, denominator |-> <<>>]]]

NoStakeData == [k \in {} |-> Garbage]
StakeDataOf(bytes) == [k \in {"Stake1"} |-> bytes]

\* (vault, pool LP balance, LP supply, vault token account) of one side
Vault(total_amount, locked_profit) ==
    [total_amount |-> BigOf(total_amount), locked_profit |-> BigOf(locked_profit)]
Lp(supply, lp) == [supply |-> BigOf(supply), lp |-> BigOf(lp)]
VaultStates == {Vault(0, 0), Vault(MaxTotal - 1, 0), Vault(MaxTotal, 0), Vault(MaxTotal, 1)}
LpStates == {Lp(0, 0), Lp(MaxSupply - 1, 1), Lp(MaxSupply, 0), Lp(MaxSupply, MaxSupply)}
\* the raw balances of (vault_a_token, vault_b_token): never the same on both sides
TokenBalances == {<<BigOf(1), BigOf(MaxTotal)>>, <<BigOf(MaxTotal), BigOf(1)>>}
Clock(slot, unix_timestamp) == [slot |-> BigOf(slot), unix_timestamp |-> I64(unix_timestamp)]

MakePool(enabled, tag, activation_point, fees, fee_curve, completed, curve_type) ==
    [enabled |-> enabled,
     bootstrapping |-> [activation_type |-> tag, activation_point |-> activation_point],
     token_a_mint |-> "MintA", token_b_mint |-> "MintB", stake |-> "Stake1",
     fees |-> fees, fee_curve |-> fee_curve, is_update_fee_completed |-> completed,
     curve_type |-> curve_type]

\* overflow_checks is the profile compute_quote is built with
MakeQuoteData(pool, va, la, ta, vb, lb, tb, clock, stake_data, overflow_checks) ==
    [pool |-> pool, vault_a |-> va, vault_b |-> vb,
     pool_vault_a_lp_token |-> [amount |-> la.lp],
     pool_vault_b_lp_token |-> [amount |-> lb.lp],
     vault_a_lp_mint |-> [supply |-> la.supply],
     vault_b_lp_mint |-> [supply |-> lb.supply],
     vault_a_token |-> [amount |-> ta], vault_b_token |-> [amount |-> tb],
     clock |-> clock, stake_data |-> stake_data, overflow_checks |-> overflow_checks]

Mints == {"MintA", "MintB", "MintC"}

\* Quotes that exercise the validation steps, on two fixed sets of reserves
ValidationQuotes ==
    {MakeQuoteData(
         MakePool(enabled, tag, BigOf(ap), fees, NoFeeCurve, FALSE, curve),
         Vault(MaxTotal, 0), Lp(MaxSupply, MaxSupply), BigOf(MaxTotal),
         Vault(MaxTotal, lockedB), Lp(MaxSupply, 1), BigOf(MaxTotal - 1),
         Clock(slot, ts), sd, oc) :
       enabled \in BOOLEAN, tag \in {0, 1, 2}, ap \in {0, 2}, slot \in {1, 3},
       ts \in {0 - 1, 1, 3},
       fees \in {StaticFees(1, 1000, 0, 1), StaticFees(1, 0, 0, 1), StaticFees(1, 1, 0, 1)},
       curve \in {ConstantProductCurve, DepegCurve(1, PRECISION, TRUE)},
       sd \in {NoStakeData, StakeDataOf(StakePool(2, 1, 0, 1))},
       lockedB \in {0, MaxTotal + 1}, oc \in BOOLEAN}

\* Quotes of an activated pool whose fee follows a curve, in either build profile
FeeCurveQuotes ==
    {MakeQuoteData(
         MakePool(TRUE, 0, BigOf(0), StaticFees(1, 1000, 0, 1), fc, completed,
                  ConstantProductCurve),
         Vault(MaxTotal, 0), Lp(MaxSupply, MaxSupply), BigOf(MaxTotal),
         Vault(MaxTotal, 0), Lp(MaxSupply, MaxSupply), BigOf(MaxTotal - 1),
         Clock(slot, 1), NoStakeData, oc) :
       fc \in {SmallFeeCurve, OpenEndedFeeCurve}, completed \in BOOLEAN,
       slot \in {1, 3, 50}, oc \in BOOLEAN}

SwapFees == {StaticFees(0, 1, 0, 1), StaticFees(1, 2, 0, 1), StaticFees(2, 3, 1, 2),
             StaticFees(1, 2, 2, 1)}
SwapCurves == {ConstantProductCurve, StableCurve(1, 1, 1), StableCurve(2, 1, 2),
               DepegCurve(1, PRECISION, FALSE)}
SwapStakeData == {StakeDataOf(StakePool(2, 1, 0, 1))}

\* Quotes of an enabled, activated pool over the reserves, fees and curves; the
\* two vault token accounts hold different balances, and with no fee curve the
\* fees are the stored ones in either build profile
SwapQuotes ==
    {MakeQuoteData(
         MakePool(TRUE, 0, BigOf(0), fees, NoFeeCurve, FALSE, curve),
         va, la, t[1], vb, lb, t[2], Clock(3, 1), sd, FALSE) :
       fees \in SwapFees, curve \in SwapCurves, sd \in SwapStakeData,
       va \in VaultStates, la \in LpStates, vb \in VaultStates, lb \in LpStates,
       t \in TokenBalances}

NoPrev == [valid |-> FALSE, in_amount |-> 0, out_amount |-> <<>>]

\* the variables of a specification that is not running
IdleQuoteData ==
    MakeQuoteData(MakePool(FALSE, 0, BigOf(0), StaticFees(0, 1, 0, 1), NoFeeCurve, FALSE,
                           ConstantProductCurve),
                  Vault(0, 0), Lp(0, 0), BigOf(0), Vault(0, 0), Lp(0, 0), BigOf(0),
                  Clock(0, 0), NoStakeData, FALSE)
IdleFeeState == [fees |-> StaticFees(0, 1, 0, 1), fee_curve |-> NoFeeCurve,
                 is_update_fee_completed |-> FALSE, overflow_checks |-> FALSE]
QuoteIdle ==
    /\ quote_data = IdleQuoteData /\ in_token_mint = "MintA" /\ in_amount = 0
    /\ result = NoQuote /\ prev = NoPrev
FeesIdle ==
    /\ fee_state = IdleFeeState /\ fee_point = <<>> /\ fee_result = FeeErr("")
DepegIdle ==
    /\ stake_bytes = Garbage /\ vp_result = None

(***************************************************************************)
(* Spec: a caller quotes a swap, then raises the amount and quotes again   *)
(***************************************************************************)
Init ==
    /\ pc = "ready"
    /\ \/ quote_data \in ValidationQuotes \cup FeeCurveQuotes /\ in_token_mint \in Mints
       \/ quote_data \in SwapQuotes /\ in_token_mint \in {"MintA", "MintB"}
    /\ in_amount = 0
    /\ result = NoQuote
    /\ prev = NoPrev
    /\ FeesIdle /\ DepegIdle

ComputeQuote ==
    /\ pc = "ready"
    /\ result' = compute_quote(in_token_mint, BigOf(in_amount), quote_data)
    /\ pc' = "done"
    /\ UNCHANGED <<quote_data, in_token_mint, in_amount, prev>>
    /\ UNCHANGED <<feeVars, depegVars>>

\* the caller asks again for one more token in; prev keeps the last quote that succeeded
RaiseAmount ==
    /\ pc = "done"
    /\ in_amount < MaxAmount
    /\ in_amount' = in_amount + 1
    /\ prev' = IF result.ok
               THEN [valid |-> TRUE, in_amount |-> in_amount, out_amount |-> result.out_amount]
               ELSE prev
    /\ result' = NoQuote
    /\ pc' = "ready"
    /\ UNCHANGED <<quote_data, in_token_mint>>
    /\ UNCHANGED <<feeVars, depegVars>>

Next == ComputeQuote \/ RaiseAmount

Spec == Init /\ [][Next]_vars

(***************************************************************************)
(* SpecFees: the fee schedule of a pool is resolved as time passes         *)
(***************************************************************************)
\* activation points: multiples of 100, and the largest u64 ("never")
ActivationPoints == {BigOf(100 * k) : k \in 0..MaxPointMultiple} \cup {U64Max}
TimePoints == {BigOf(50 * k) : k \in 0..(2 * MaxPointMultiple + 1)}
FeeBps == {50, 75, 100}
\* the control points of a curve are in activation order
Sorted(points) ==
    \A i \in 1..(FEE_CURVE_POINT_NUMBER - 1) :
        BigLeq(points[i - 1].activated_point, points[i].activated_point)
FeeCurves ==
    {c \in {[fee_curve_type |-> t,
             points |-> Points(Point(a0, f0), Point(a1, f1), Point(a2, f2))] :
                t \in FeeCurveTypes, a0 \in ActivationPoints, a1 \in ActivationPoints,
                a2 \in ActivationPoints, f0 \in FeeBps, f1 \in FeeBps, f2 \in FeeBps} :
        Sorted(c.points)}

InitFees ==
    /\ pc = "ready"
    /\ fee_state \in [fees : {StaticFees(25, 10000, 1, 5)}, fee_curve : FeeCurves,
                      is_update_fee_completed : BOOLEAN, overflow_checks : BOOLEAN]
    /\ fee_point \in {BigOf(0), BigOf(50)}
    /\ fee_result = FeeErr("")
    /\ QuoteIdle /\ DepegIdle

ResolveFees ==
    /\ pc = "ready"
    /\ fee_result' = get_latest_pool_fees(fee_state, fee_point, fee_state.overflow_checks)
    /\ pc' = "done"
    /\ UNCHANGED <<fee_state, fee_point>>
    /\ UNCHANGED <<quoteVars, depegVars>>

AdvancePoint ==
    /\ pc = "done"
    /\ BigAdd(fee_point, BigOf(100)) \in TimePoints
    /\ fee_point' = BigAdd(fee_point, BigOf(100))
    /\ fee_result' = FeeErr("")
    /\ pc' = "ready"
    /\ UNCHANGED fee_state
    /\ UNCHANGED <<quoteVars, depegVars>>

NextFees == ResolveFees \/ AdvancePoint

SpecFees == InitFees /\ [][NextFees]_vars

(***************************************************************************)
(* SpecDepeg: the virtual price of a stake pool as rewards accrue          *)
(***************************************************************************)
\* the documented fixture: 1_000_000 lamports, 900_000 pool tokens, fee 1/1000
Fixture == StakePool(1000000, 900000, 1, 1000).stake
WithdrawalFees == {[numerator |-> BigOf(n), denominator |-> BigOf(d)] :
                      n \in {0, 1, 3}, d \in {0, 1, 10, 30, 31, 1000}}
StakePools ==
    {[decodable |-> TRUE,
      stake |-> [total_lamports |-> l, pool_token_supply |-> s, sol_withdrawal_fee |-> f]] :
        l \in {BigOf(0), BigOf(1), BigOf(MaxLamports - 1)},
        s \in {BigOf(0), BigOf(1), BigOf(3)}, f \in WithdrawalFees}
    \cup {[decodable |-> TRUE,
           stake |-> [total_lamports |-> l, pool_token_supply |-> s, sol_withdrawal_fee |-> f]] :
        l \in {BigSub(Fixture.total_lamports, BigOf(1)), BigSub(U64Max, BigOf(1))},
        s \in {BigOf(0), BigOf(1), Fixture.pool_token_supply}, f \in WithdrawalFees}
    \cup {Garbage}

InitDepeg ==
    /\ pc = "ready"
    /\ stake_bytes \in StakePools
    /\ vp_result = None
    /\ QuoteIdle /\ FeesIdle

GetVirtualPrice ==
    /\ pc = "ready"
    /\ vp_result' = get_virtual_price(stake_bytes)
    /\ pc' = "done"
    /\ UNCHANGED stake_bytes
    /\ UNCHANGED <<quoteVars, feeVars>>

\* one more lamport of staking rewards reaches the pool's reserve
AccrueRewards ==
    /\ pc = "done"
    /\ stake_bytes.decodable
    /\ stake_bytes.stake.total_lamports
          \in {BigOf(MaxLamports - 1), BigSub(Fixture.total_lamports, BigOf(1)),
               BigSub(U64Max, BigOf(1))}
    /\ stake_bytes' = [stake_bytes EXCEPT !.stake.total_lamports = BigAdd(@, BigOf(1))]
    /\ vp_result' = None
    /\ pc' = "ready"
    /\ UNCHANGED <<quoteVars, feeVars>>

NextDepeg == GetVirtualPrice \/ AccrueRewards

SpecDepeg == InitDepeg /\ [][NextDepeg]_vars


(***************************************************************************)
(* Properties                                                              *)
(***************************************************************************)
Quoted == pc = "done" /\ quote_data # IdleQuoteData
Pool == quote_data.pool
ValidTag == Pool.bootstrapping.activation_type \in {0, 1}
\* the current point as the specification words it, the slot or the (signed)
\* timestamp, is below the activation point
BelowActivation ==
    IF Pool.bootstrapping.activation_type = 0
    THEN BigLt(quote_data.clock.slot, Pool.bootstrapping.activation_point)
    ELSE \/ quote_data.clock.unix_timestamp.neg
         \/ BigLt(quote_data.clock.unix_timestamp.mag, Pool.bootstrapping.activation_point)

ErrPoolDisabled == "Pool disabled"
ErrSwapDisabled == "Swap is disabled"
ErrInvalidMint == "In token mint not matches with pool token mints"
LaterStageErrors ==
    {"Fail to get virtual price", "TryFromIntError", "Fail to get token a amount",
     "Fail to get token b amount", "Fail to get in_vault_lp", "Fail to get out_vault_lp",
     "Fail to get out_amount", "Fail to get swap result", "Fail to get actual_in_amount",
     "Fail to get after_in_token_total_amount"}

\* C1: a quote on a pool with enabled = false fails with the pool-disabled
\* error whatever the other inputs are, the activation-type tag included.
C1_DisabledPoolFailsAsPoolDisabled ==
    (Quoted /\ ~Pool.enabled) => (~result.ok /\ result.err = ErrPoolDisabled)

\* C2: when in_token_mint is neither pool mint no QuoteResult is returned and
\* the failure is not a depeg, timestamp-conversion, vault or curve failure.
C2_MintMismatchIsWhatIsReported ==
    (Quoted /\ ~MintMatches(in_token_mint, Pool))
        => (~result.ok /\ result.err \notin LaterStageErrors)

\* C3: whenever the current point (clock.slot for Slot, clock.unix_timestamp
\* for Timestamp) is below the activation point, the quote is rejected as
\* swap-disabled (a pool that is not enabled may be rejected as pool-disabled).
C3_BelowActivationIsSwapDisabled ==
    (Quoted /\ ValidTag /\ BelowActivation)
        => /\ ~result.ok
           /\ \/ result.err = ErrSwapDisabled
              \/ ~Pool.enabled /\ result.err = ErrPoolDisabled

\* the out side of the quote as the claims word it, from in_token_mint
AtoB == in_token_mint = Pool.token_a_mint
OutVault == IF AtoB THEN quote_data.vault_b ELSE quote_data.vault_a
OutLpBalance ==
    IF AtoB THEN quote_data.pool_vault_b_lp_token.amount
    ELSE quote_data.pool_vault_a_lp_token.amount
OutLpSupply ==
    IF AtoB THEN quote_data.vault_b_lp_mint.supply ELSE quote_data.vault_a_lp_mint.supply
OutTokenBalance ==
    IF AtoB THEN quote_data.vault_b_token.amount ELSE quote_data.vault_a_token.amount
InTokenBalance ==
    IF AtoB THEN quote_data.vault_a_token.amount ELSE quote_data.vault_b_token.amount
InVault == IF AtoB THEN quote_data.vault_a ELSE quote_data.vault_b
InLpBalance ==
    IF AtoB THEN quote_data.pool_vault_a_lp_token.amount
    ELSE quote_data.pool_vault_b_lp_token.amount
InLpSupply ==
    IF AtoB THEN quote_data.vault_a_lp_mint.supply ELSE quote_data.vault_b_lp_mint.supply
\* the pre-swap reserves: get_amount_by_share on the pool's LP balance and the LP supply
OutReserve ==
    get_amount_by_share(OutVault, CurrentTime(quote_data.clock), OutLpBalance, OutLpSupply)
InReserve ==
    get_amount_by_share(InVault, CurrentTime(quote_data.clock), InLpBalance, InLpSupply)
Succeeded == Quoted /\ result.ok

\* C4: for every successful quote out_amount is strictly less than the
\* pre-swap out-side reserve (get_amount_by_share of the out vault on the
\* pool's LP balance and the LP supply), for both directions and both curves.
C4_OutBelowOutReserve ==
    Succeeded =>
        /\ OutReserve # None /\ BigLt(result.out_amount, Unwrap(OutReserve))
        /\ result.out_token_total_amount = Unwrap(OutReserve)

\* C4 witness: a B-to-A quote on a stable curve, between reserves that differ,
\* that pays out a positive amount
C4_Witness ==
    /\ Succeeded /\ ~AtoB /\ result.swap_curve.kind = "Stable"
    /\ result.out_amount # <<>>
    /\ InReserve # OutReserve

\* C5: a QuoteResult is returned only if out_amount is strictly less than the
\* raw balance of the out vault's token account (vault_b_token.amount for
\* A-to-B, vault_a_token.amount for B-to-A); an out_amount equal to (or above)
\* that balance is rejected as insufficient liquidity.
C5_LiquidityGuardIsStrict ==
    /\ Succeeded => BigLt(result.out_amount, OutTokenBalance)
    /\ (Quoted /\ result.err = "Out amount > vault reserve")
          => (~result.ok /\ BigLeq(OutTokenBalance, result.out_amount))

\* C5 witness: the same caller was quoted below the out balance and, with a
\* larger amount, is rejected with out_amount exactly equal to the balance of
\* the out vault's token account, while the in vault's account holds more
C5_Witness ==
    /\ Quoted /\ prev.valid /\ BigLt(prev.out_amount, OutTokenBalance)
    /\ ~result.ok /\ result.err = "Out amount > vault reserve"
    /\ result.out_amount = OutTokenBalance
    /\ BigLt(result.out_amount, InTokenBalance)

\* C6: for a fixed QuoteData and in_token_mint, a quote for a larger in_amount
\* that succeeds never returns less than an earlier successful quote.
C6_OutAmountMonotone ==
    (Succeeded /\ prev.valid) => BigLeq(prev.out_amount, result.out_amount)

\* C7: in every successful quote 0 <= protocol_fee <= trade_fee_before_split
\* and the fee returned is trade_fee_before_split - protocol_fee.
C7_FeeSplit ==
    Succeeded =>
        /\ BigLeq(<<>>, result.protocol_fee)
        /\ BigLeq(result.protocol_fee, result.trade_fee_before_split)
        /\ BigAdd(result.fee, result.protocol_fee) = result.trade_fee_before_split
        /\ BigAdd(result.in_amount_after_protocol_fee, result.protocol_fee) = BigOf(in_amount)

\* C7 witness: a successful quote with a positive protocol cut and a positive
\* fee left after it
C7_Witness ==
    /\ Succeeded /\ result.protocol_fee # <<>> /\ result.fee # <<>>
    /\ BigLt(result.fee, result.trade_fee_before_split)

\* C8: the round trip through a vault never creates value: for the vaults and
\* LP supplies of the quote and every amount x for which both conversions
\* succeed, get_amount_by_share(get_unmint_amount(x)) <= x; and a successful
\* quote never returns more than the curve's destination_amount_swapped.
RoundTripAmounts == {BigOf(x) : x \in 0..(MaxTotal + 1)} \cup {U64Max}
RoundTrip(vault, current_time, x, lp_supply) ==
    LET lp == get_unmint_amount(vault, current_time, x, lp_supply)
    IN  IF lp = None THEN None
        ELSE get_amount_by_share(vault, current_time, Unwrap(lp), lp_supply)
C8_RoundTripNeverCreatesValue ==
    /\ Quoted =>
          \A side \in {<<quote_data.vault_a, quote_data.vault_a_lp_mint.supply>>,
                        <<quote_data.vault_b, quote_data.vault_b_lp_mint.supply>>} :
          \A x \in RoundTripAmounts :
              LET back == RoundTrip(side[1], CurrentTime(quote_data.clock), x, side[2])
              IN  (side[2] # <<>> /\ back # None) => BigLeq(Unwrap(back), x)
    /\ Succeeded => BigLeq(result.out_amount, result.destination_amount_swapped)

\* C8 witness: a successful quote whose out vault rounds the swapped amount down
C8_Witness ==
    /\ Succeeded /\ result.destination_amount_swapped # <<>>
    /\ result.out_amount # <<>>
    /\ BigLt(result.out_amount, result.destination_amount_swapped)

FeesResolved == pc = "done" /\ fee_state # IdleFeeState
FeePoints == fee_state.fee_curve.points
\* the first point whose activated_point >= t, or FEE_CURVE_POINT_NUMBER if none
FirstPointAtOrAfter(t) ==
    IF \E i \in 0..(FEE_CURVE_POINT_NUMBER - 1) : BigLeq(t, FeePoints[i].activated_point)
    THEN CHOOSE i \in 0..(FEE_CURVE_POINT_NUMBER - 1) :
             /\ BigLeq(t, FeePoints[i].activated_point)
             /\ \A j \in 0..(i - 1) : BigLt(FeePoints[j].activated_point, t)
    ELSE FEE_CURVE_POINT_NUMBER
\* the fee in basis points by the interpolation formula, in unbounded integers
ExactLinearBps(t) ==
    LET i == FirstPointAtOrAfter(t)
    IN  IF i = 0 THEN FeePoints[0].fee_bps
        ELSE IF i = FEE_CURVE_POINT_NUMBER THEN FeePoints[FEE_CURVE_POINT_NUMBER - 1].fee_bps
        ELSE LET a == FeePoints[i - 1].activated_point
                 b == FeePoints[i].activated_point
             IN  BigToNat(BigDiv(BigAdd(BigMul(BigOf(FeePoints[i].fee_bps), BigSub(t, a)),
                                        BigMul(BigOf(FeePoints[i - 1].fee_bps), BigSub(b, t))),
                                 BigSub(b, a)))

\* C9: for a Linear fee curve that has not completed its update the fee
\* resolved at t is point 0's fee if its activated_point >= t, else the linear
\* blend floor((fee_i*(t-a) + fee_{i-1}*(b-t)) / (b-a)) at the first point i
\* with activated_point >= t, else the last point's fee; and the returned
\* trade_fee_numerator is that value times 10.
C9_LinearFeeIsTheInterpolation ==
    (FeesResolved /\ fee_state.fee_curve.fee_curve_type = "Linear"
        /\ ~fee_state.is_update_fee_completed)
        => /\ fee_result.ok
           /\ fee_result.fees.trade_fee_numerator = BigOf(ExactLinearBps(fee_point) * 10)

StakeResolved == pc = "done" /\ stake_bytes.decodable
Stake == stake_bytes.stake
\* q = floor(x / d): q * d <= x < (q + 1) * d
IsFloorOfQuotient(q, x, d) ==
    /\ BigLeq(BigMul(q, d), x)
    /\ BigLt(x, BigMul(BigAdd(q, BigOf(1)), d))
\* total_lamports * m * PRECISION
ScaledLamports(m) == BigMul(BigMul(Stake.total_lamports, m), BigOf(PRECISION))
\* denominator - numerator of the withdrawal fee (for denominator >= numerator)
FeeComplement ==
    BigSub(Stake.sol_withdrawal_fee.denominator, Stake.sol_withdrawal_fee.numerator)
\* denominator > 10 * numerator
SanityThresholdMet ==
    BigLeq(Stake.sol_withdrawal_fee.denominator,
           BigMul(BigOf(10), Stake.sol_withdrawal_fee.numerator))

\* C10: for a decodable stake pool with pool_token_supply > 0 and a withdrawal
\* fee with denominator > 10 * numerator, whenever no 128-bit intermediate
\* overflows and the result fits in 64 bits, get_virtual_price returns
\* floor((3 * deposit_price + withdraw_price) / 4), where deposit_price is
\* floor(total_lamports * PRECISION / supply) and withdraw_price is the single
\* division floor(total_lamports * (den - num) * PRECISION / (den * supply));
\* for 1_000_000 lamports, 900_000 pool tokens and a fee of 1/1000 it is 1110833.
C10_VirtualPriceIsTheBlend ==
    (StakeResolved /\ Stake.pool_token_supply # <<>> /\ ~SanityThresholdMet
        /\ FitsU128(ScaledLamports(FeeComplement)))
        => LET withdraw_price == WithdrawPrice(Stake)
               deposit_price == DepositPrice(Stake)
               virtual_price == BlendPrices(deposit_price, withdraw_price)
           IN  /\ withdraw_price # None /\ deposit_price # None /\ virtual_price # None
               /\ IsFloorOfQuotient(Unwrap(deposit_price), ScaledLamports(BigOf(1)),
                                    Stake.pool_token_supply)
               /\ IsFloorOfQuotient(Unwrap(withdraw_price), ScaledLamports(FeeComplement),
                                    BigMul(Stake.sol_withdrawal_fee.denominator,
                                           Stake.pool_token_supply))
               /\ IsFloorOfQuotient(Unwrap(virtual_price),
                                    BigAdd(BigMul(BigOf(3), Unwrap(deposit_price)),
                                           Unwrap(withdraw_price)),
                                    BigOf(4))
               /\ FitsU64(Unwrap(virtual_price)) => vp_result = virtual_price
               /\ Stake = Fixture => vp_result = Some(BigOf(1110833))

\* C10 witness: the documented fixture, priced at 1110833
C10_Witness ==
    /\ StakeResolved /\ Stake = Fixture /\ vp_result = Some(BigOf(1110833))

\* the virtual price the quote's stake data resolves to, None if unavailable
FreshVirtualPrice ==
    IF Pool.stake \in DOMAIN quote_data.stake_data
    THEN get_virtual_price(quote_data.stake_data[Pool.stake])
    ELSE None

\* C11: on a depeg pool whose virtual price resolves, the curve instance that
\* swaps carries the freshly resolved virtual price, not the pool's stored one.
C11_SwapCurveCarriesFreshPrice ==
    (Succeeded /\ Pool.curve_type.kind = "Stable" /\ Pool.curve_type.depeg_type # "None"
        /\ FreshVirtualPrice # None)
        => result.swap_curve.base_virtual_price = Unwrap(FreshVirtualPrice)

CurveApplies ==
    FeesResolved /\ fee_state.fee_curve.fee_curve_type # "None"
        /\ ~fee_state.is_update_fee_completed
\* the fee in basis points of either curve type, in unbounded integers
ExactBps(t) ==
    LET i == FirstPointAtOrAfter(t)
    IN  IF fee_state.fee_curve.fee_curve_type = "Flat" /\ i \in 1..(FEE_CURVE_POINT_NUMBER - 1)
        THEN FeePoints[i - 1].fee_bps
        ELSE ExactLinearBps(t)

\* C12: fee resolution is checked arithmetic: for every fee curve it returns
\* the fee of the exact (unbounded-integer) formula or fails with an overflow
\* error; nothing wraps modulo 2^64 and the narrowing to 16 bits never truncates.
C12_FeeResolutionIsChecked ==
    CurveApplies
        => \/ /\ fee_result.ok
              /\ fee_result.fees.trade_fee_numerator = BigOf(ExactBps(fee_point) * 10)
           \/ ~fee_result.ok /\ fee_result.err = "Overflow"

\* C13: when the withdrawal fee has denominator <= 10 * numerator (denominator
\* 0 and the boundary denominator = 10 * numerator included) the virtual price
\* is exactly deposit_price = floor(total_lamports * PRECISION / supply), as a
\* u64, with no division by the fee denominator; otherwise it is the blended
\* price.
C13_SanityThreshold ==
    (StakeResolved /\ Stake.pool_token_supply # <<>>)
        => LET deposit_price == DepositPrice(Stake)
               withdraw_price == WithdrawPrice(Stake)
           IN  /\ deposit_price # None
               /\ IsFloorOfQuotient(Unwrap(deposit_price), ScaledLamports(BigOf(1)),
                                    Stake.pool_token_supply)
               /\ SanityThresholdMet => vp_result = u128_try_into_u64(deposit_price)
               /\ ~SanityThresholdMet
                     => /\ withdraw_price # None
                        /\ vp_result
                              = TryIntoU64(BigDiv(BigAdd(BigMul(BigOf(3), Unwrap(deposit_price)),
                                                         Unwrap(withdraw_price)),
                                                  BigOf(4)))

\* C13 witness: a pool exactly on the boundary denominator = 10 * numerator,
\* with a positive fee, priced at its deposit price
C13_Witness ==
    /\ StakeResolved /\ Stake.pool_token_supply # <<>> /\ Stake.total_lamports # <<>>
    /\ Stake.sol_withdrawal_fee.numerator # <<>>
    /\ Stake.sol_withdrawal_fee.denominator
          = BigMul(BigOf(10), Stake.sol_withdrawal_fee.numerator)
    /\ vp_result = u128_try_into_u64(DepositPrice(Stake))
    /\ vp_result # None

\* C14: a Flat fee curve that has not completed its update is a step function:
\* with i > 0 the first point whose activated_point >= t, the fee is point
\* i-1's fee_bps (times 10 as numerator), never point i's, also at
\* t = activated_point of i; with the curve type None or the update completed
\* the stored PoolFees is returned unchanged in all four fields.
C14_FlatFeeIsAStep ==
    /\ (CurveApplies /\ fee_state.fee_curve.fee_curve_type = "Flat"
           /\ FirstPointAtOrAfter(fee_point) \in 1..(FEE_CURVE_POINT_NUMBER - 1))
          => /\ fee_result.ok
             /\ fee_result.fees
                   = [fee_state.fees EXCEPT !.trade_fee_numerator =
                          BigOf(FeePoints[FirstPointAtOrAfter(fee_point) - 1].fee_bps * 10)]
    /\ (FeesResolved /\ ~CurveApplies) => fee_result = FeeOk(fee_state.fees)

\* C14 witness: a Flat curve resolved exactly at the activation point of point
\* i > 0, whose fee differs from the fee of point i-1 that is returned
C14_Witness ==
    /\ CurveApplies /\ fee_state.fee_curve.fee_curve_type = "Flat"
    /\ FirstPointAtOrAfter(fee_point) \in 1..(FEE_CURVE_POINT_NUMBER - 1)
    /\ FeePoints[FirstPointAtOrAfter(fee_point)].activated_point = fee_point
    /\ FeePoints[FirstPointAtOrAfter(fee_point)].fee_bps
          # FeePoints[FirstPointAtOrAfter(fee_point) - 1].fee_bps
    /\ fee_result.ok
    /\ fee_result.fees.trade_fee_numerator
          = BigOf(FeePoints[FirstPointAtOrAfter(fee_point) - 1].fee_bps * 10)

ErrAmountAfterFee == "Fail to calculate in_amount_after_fee"

\* C15: a trade fee (after the protocol split) above actual_in_amount fails the
\* quote, it is neither clamped to zero nor wrapped: the step fails exactly
\* when fee > actual_in_amount, and in every successful quote
\* fee <= actual_in_amount and the amount given to the swap curve is
\* actual_in_amount - fee.
C15_FeeNeverExceedsCreditedAmount ==
    /\ (Quoted /\ result.err = ErrAmountAfterFee)
          => ~result.ok /\ BigLt(result.actual_in_amount, result.fee)
    /\ Succeeded
          => /\ BigLeq(result.fee, result.actual_in_amount)
             /\ BigAdd(result.actual_in_amount_after_fee, result.fee) = result.actual_in_amount

\* C15 witness: a quote whose fee exceeds the amount the simulated deposit
\* credited, refused at step 8
C15_Witness ==
    /\ Quoted /\ ~result.ok /\ result.err = ErrAmountAfterFee
    /\ BigLt(result.actual_in_amount, result.fee)

\* the simulated deposit was carried out and its locals are in the result
DepositSimulated ==
    Quoted /\ result.err \in {"", "Out amount > vault reserve"}

\* C16: for an in vault whose pool LP balance is at most the LP supply, with a
\* positive supply, the reserve after the simulated deposit is never below the
\* reserve before it (the subtraction giving actual_in_amount does not
\* underflow), actual_in_amount <= in_amount_after_protocol_fee, and in every
\* successful quote fee + protocol_fee <= in_amount.
C16_SimulatedDepositCreditsAtMostTheDeposit ==
    (Quoted /\ ValidTag /\ BigLeq(InLpBalance, InLpSupply) /\ InLpSupply # <<>>)
        => /\ result.err # "Fail to get actual_in_amount"
           /\ DepositSimulated
                 => /\ BigLeq(result.actual_in_amount, result.in_amount_after_protocol_fee)
                    /\ BigAdd(result.in_amount_after_protocol_fee, result.protocol_fee)
                          = BigOf(in_amount)
           /\ Succeeded => BigLeq(BigAdd(result.fee, result.protocol_fee), BigOf(in_amount))

\* C16 witness: a successful quote on an in vault of which the pool holds only
\* a part of the LP supply, where the deposit is credited with a rounding loss
C16_Witness ==
    /\ Succeeded /\ InLpSupply # <<>> /\ BigLt(InLpBalance, InLpSupply)
    /\ result.protocol_fee # <<>>
    /\ result.actual_in_amount # <<>>
    /\ BigLt(result.actual_in_amount, result.in_amount_after_protocol_fee)

\* the interpolation branch of get_latest_trade_bps is the one taken
InterpolationReached ==
    /\ CurveApplies /\ fee_state.fee_curve.fee_curve_type = "Linear"
    /\ FirstPointAtOrAfter(fee_point) \in 1..(FEE_CURVE_POINT_NUMBER - 1)

MinBps(x, y) == IF x <= y THEN x ELSE y
MaxBps(x, y) == IF x <= y THEN y ELSE x

\* the activation points on either side of the current point lie a < t <= b
NeighboursBracketThePoint ==
    InterpolationReached
        => LET i == FirstPointAtOrAfter(fee_point)
           IN  /\ BigLt(FeePoints[i - 1].activated_point, fee_point)
               /\ BigLeq(fee_point, FeePoints[i].activated_point)

\* C17: whenever the interpolation branch is reached for point i > 0 the
\* neighbouring activation points satisfy a < current_point <= b, so b - a is
\* positive, and the interpolated fee lies between min(fee_{i-1}, fee_i) and
\* max(fee_{i-1}, fee_i) inclusive.
C17_InterpolatedFeeWithinNeighbours ==
    InterpolationReached
        => LET i == FirstPointAtOrAfter(fee_point)
               m == FeePoints[i - 1].fee_bps
               n == FeePoints[i].fee_bps
           IN  /\ BigLt(FeePoints[i - 1].activated_point, fee_point)
               /\ BigLeq(fee_point, FeePoints[i].activated_point)
               /\ fee_result.ok
                     => /\ BigLeq(BigOf(MinBps(m, n) * 10), fee_result.fees.trade_fee_numerator)
                        /\ BigLeq(fee_result.fees.trade_fee_numerator, BigOf(MaxBps(m, n) * 10))

====
